---------------------------- MODULE Spec2Model ----------------------------
(***************************************************************************)
(* SMILES validator of Luna-v0/smiles: the Parser Manager                  *)
(* (smiles_checker/validator/parser_manager.py), the Molecular Graph       *)
(* (smiles_checker/chem/structure.py), the Chemistry Facade                *)
(* (smiles_checker/chem/chemistry.py) and the validation entry point       *)
(* (smiles_checker/validator/yacc.py) as a state machine.                  *)
(*                                                                         *)
(* Python values are encoded as follows.                                   *)
(*   None (an optional int or str)  -> <<>>, a present value v -> <<v>>    *)
(*   None (an atom)                 -> NoAtom                              *)
(*   Atom / BracketAtom             -> a record; the dataclasses are       *)
(*       frozen with value equality and hashing, hence two atoms built     *)
(*       from the same arguments are the same dict key, and the same       *)
(*       record here.  The shell data derived from the configuration and   *)
(*       the charge is a function of the other fields and is left out of   *)
(*       the record.                                                       *)
(*   dict                           -> a function on its key set           *)
(*   list                           -> a sequence                          *)
(***************************************************************************)
EXTENDS Integers, Sequences, FiniteSets, TLC

VARIABLES
    current_open_rnum,    \* ParserManager.current_open_rnum   (list of int)
    current_closed_rnum,  \* ParserManager.current_closed_rnum (list of int)
    current_chain,        \* ParserManager.current_chain       (list of atoms)
    last_atom,            \* ParserManager.last_atom           (atom or None)
    ring_atoms,           \* ParserManager.ring_atoms          (dict int -> atom)
    adjacency_list,       \* chemistry.mol_graph.adjacency_list
    cycles,               \* chemistry.mol_graph.cycles
    ret                   \* the last call made on the library and how it ended

pm_vars == <<current_open_rnum, current_closed_rnum, current_chain, last_atom, ring_atoms>>
graph_vars == <<adjacency_list, cycles>>
vars == <<current_open_rnum, current_closed_rnum, current_chain, last_atom,
          ring_atoms, adjacency_list, cycles, ret>>

(***************************************************************************)
(* Bounds of the model.                                                    *)
(***************************************************************************)
\* The most list entries and edges the Parser Manager and the graph hold together.
MaxSize == 3

None == <<>>
Some(v) == <<v>>

NoAtom == [cls |-> "None"]

EmptyDict == [k \in {} |-> <<>>]

(***************************************************************************)
(* Atoms.                                                                  *)
(***************************************************************************)
\* An electron configuration string is the sequence of its whitespace-separated
\* tokens: an orbital token "<n><s><e>" is [n |-> n, s |-> s, e |-> e], a
\* noble-gas shorthand or any other text is [text |-> ...].
Orbital(n, s, e) == [n |-> n, s |-> s, e |-> e]

MkAtom(symbol, electron_configuration, aromatic) ==
    [cls |-> "Atom", symbol |-> symbol,
     electron_configuration |-> electron_configuration, aromatic |-> aromatic]

MkBracketAtom(symbol, electron_configuration, aromatic, hidrogens, charge, isotope, chiral, mol_map) ==
    [cls |-> "BracketAtom", symbol |-> symbol,
     electron_configuration |-> electron_configuration, aromatic |-> aromatic,
     hidrogens |-> hidrogens, charge |-> charge, isotope |-> isotope,
     chiral |-> chiral, mol_map |-> mol_map]

\* The symbols of the periodic table asset the model uses.
pt_symbols == {"H", "He", "Li", "C", "N", "O", "Ne"}

\* Chemistry.look_up_table: the electron configuration of each element.
look_up_table(symbol) ==
    CASE symbol = "H"  -> <<Orbital(1, "s", 1)>>
      [] symbol = "He" -> <<Orbital(1, "s", 2)>>
      [] symbol = "Li" -> <<Orbital(1, "s", 2), Orbital(2, "s", 1)>>
      [] symbol = "C"  -> <<Orbital(1, "s", 2), Orbital(2, "s", 2), Orbital(2, "p", 2)>>
      [] symbol = "N"  -> <<Orbital(1, "s", 2), Orbital(2, "s", 2), Orbital(2, "p", 3)>>
      [] symbol = "O"  -> <<Orbital(1, "s", 2), Orbital(2, "s", 2), Orbital(2, "p", 4)>>
      [] symbol = "Ne" -> <<Orbital(1, "s", 2), Orbital(2, "s", 2), Orbital(2, "p", 6)>>
      [] OTHER -> <<>>

\* The raw symbol strings the model feeds to the factories.
RawSymbols == {"C", "c", "X"}

\* str.title() and str.islower() on the raw symbol strings.
\* A faulty str.title: the symbol left as written.
Title_as_written(s) == s

\* A faulty str.islower: no symbol taken for lowercase.
IsLower_never(s) == FALSE

Title(s) ==
    CASE s = "c" -> "C" [] s = "n" -> "N" [] s = "o" -> "O" [] s = "h" -> "H"
      [] s = "x" -> "X" [] s = "xx" -> "Xx" [] s = "he" -> "He" [] s = "HE" -> "He"
      [] OTHER -> s
IsLower(s) == s \in {"c", "n", "o", "h", "x", "xx", "he"}

\* Chemistry.Atom: the atom built, or NoAtom when it raises "Invalid Symbol".
ChemAtom(symbol, aromatic) ==
    LET processed_symbol == Title(symbol)
    IN  IF processed_symbol \notin pt_symbols THEN NoAtom
        ELSE MkAtom(processed_symbol, look_up_table(processed_symbol), aromatic)

\* Chemistry.BracketAtom: the atom built, or NoAtom when it raises.
ChemBracketAtom(symbol, aromatic, hidrogens, charge, isotope, chiral, mol_map) ==
    LET processed_symbol == Title(symbol)
    IN  IF processed_symbol \notin pt_symbols THEN NoAtom
        ELSE MkBracketAtom(processed_symbol, look_up_table(processed_symbol),
                           IF Title(symbol) # symbol THEN TRUE ELSE aromatic,
                           hidrogens, charge, isotope, chiral, mol_map)

(***************************************************************************)
(* Atomic model (chem/atomic.py).  A subshell mapping is a function from   *)
(* <<n, s>> to the electron count.                                         *)
(***************************************************************************)
EmptySubshells == [k \in {} |-> 0]

\* _parse_electron_configuration: tokens that are not orbitals are skipped,
\* a later token of the same subshell overwrites an earlier one.
RECURSIVE _parse_electron_configuration(_)
_parse_electron_configuration(electron_config) ==
    IF electron_config = <<>> THEN EmptySubshells
    ELSE LET n == Len(electron_config)
             tok == electron_config[n]
             parsed_config == _parse_electron_configuration(SubSeq(electron_config, 1, n - 1))
         IN  IF "n" \notin DOMAIN tok THEN parsed_config
             ELSE [k \in DOMAIN parsed_config \cup {<<tok.n, tok.s>>} |->
                     IF k = <<tok.n, tok.s>> THEN tok.e ELSE parsed_config[k]]

RECURSIVE SumOver(_, _)
\* sum of f[k] over k in keys
SumOver(f, keys) ==
    IF keys = {} THEN 0
    ELSE LET k == CHOOSE x \in keys : TRUE IN f[k] + SumOver(f, keys \ {k})

\* Atom._calculate_electron_properties
valency_layer_of(subshell_electrons) ==
    IF DOMAIN subshell_electrons = {} THEN 0
    ELSE CHOOSE n \in {k[1] : k \in DOMAIN subshell_electrons} :
            \A k \in DOMAIN subshell_electrons : k[1] <= n

electrons_in_valency_of(subshell_electrons) ==
    SumOver(subshell_electrons,
            {k \in DOMAIN subshell_electrons : k[1] = valency_layer_of(subshell_electrons)})

\* Atom._max_electrons_in_subshell
_max_electrons_in_subshell(subshell_type) ==
    CASE subshell_type = "s" -> 2
      [] subshell_type = "p" -> 6
      [] subshell_type = "d" -> 10
      [] subshell_type = "f" -> 14
      [] OTHER -> 0

\* The sort key of BracketAtom.__post_init__: (n, {'s': 0, 'p': 1, 'd': 2, 'f': 3}[s])
SubshellRank(s) == CASE s = "s" -> 0 [] s = "p" -> 1 [] s = "d" -> 2 [] s = "f" -> 3

KeyLess(k1, k2) ==
    \/ k1[1] < k2[1]
    \/ k1[1] = k2[1] /\ SubshellRank(k1[2]) < SubshellRank(k2[2])

RECURSIVE SortedAscending(_)
\* sorted(keys, key=...): innermost subshell first
SortedAscending(keys) ==
    IF keys = {} THEN <<>>
    ELSE LET m == CHOOSE k \in keys : \A j \in keys \ {k} : KeyLess(k, j)
         IN  <<m>> \o SortedAscending(keys \ {m})

Reverse(seq) == [i \in 1..Len(seq) |-> seq[Len(seq) + 1 - i]]

Min(a, b) == IF a <= b THEN a ELSE b

RECURSIVE RemoveElectrons(_, _, _)
\* BracketAtom.__post_init__, lines 182-190: the removal loop
RemoveElectrons(subshell_electrons, sorted_subshells, electrons_to_remove) ==
    IF sorted_subshells = <<>> \/ electrons_to_remove = 0 THEN subshell_electrons
    ELSE LET k == Head(sorted_subshells)
             removed == Min(electrons_to_remove, subshell_electrons[k])
             left == subshell_electrons[k] - removed
             after == IF left = 0
                      THEN [x \in DOMAIN subshell_electrons \ {k} |-> subshell_electrons[x]]
                      ELSE [subshell_electrons EXCEPT ![k] = left]
         IN  RemoveElectrons(after, Tail(sorted_subshells), electrons_to_remove - removed)

RECURSIVE FillExisting(_, _, _)
\* BracketAtom.__post_init__, lines 198-205: the loop that fills the existing
\* subshells; the result is <<mapping, electrons still to add>>
FillExisting(subshell_electrons, sorted_subshells, electrons_to_add) ==
    IF sorted_subshells = <<>> \/ electrons_to_add = 0
    THEN <<subshell_electrons, electrons_to_add>>
    ELSE LET k == Head(sorted_subshells)
             available_space == _max_electrons_in_subshell(k[2]) - subshell_electrons[k]
             add == Min(electrons_to_add, available_space)
         IN  FillExisting([subshell_electrons EXCEPT ![k] = @ + add],
                          Tail(sorted_subshells), electrons_to_add - add)

RECURSIVE NewShells(_, _, _)
\* BracketAtom.__post_init__, lines 217-223: new s-only shells after current_n
NewShells(subshell_electrons, current_n, electrons_to_add) ==
    IF electrons_to_add <= 0 THEN subshell_electrons
    ELSE LET add == Min(electrons_to_add, _max_electrons_in_subshell("s"))
         IN  NewShells([k \in DOMAIN subshell_electrons \cup {<<current_n + 1, "s">>} |->
                           IF k = <<current_n + 1, "s">> THEN add ELSE subshell_electrons[k]],
                       current_n + 1, electrons_to_add - add)

\* BracketAtom.__post_init__, lines 171-225: the mapping of an ion
Redistribute(initial, charge) ==
    LET charge_effect == 0 - charge
        ascending == SortedAscending(DOMAIN initial)
    IN  IF charge_effect < 0
        THEN RemoveElectrons(initial, Reverse(ascending), 0 - charge_effect)
        ELSE IF charge_effect > 0
        THEN LET filled == FillExisting(initial, ascending, charge_effect)
             IN  IF filled[2] > 0
                 THEN IF ascending # <<>>
                      THEN NewShells(filled[1], ascending[Len(ascending)][1], filled[2])
                      ELSE NewShells([k \in {<<1, "s">>} |-> 0], 1, filled[2])
                 ELSE filled[1]
        ELSE initial

\* The attribute _subshell_electrons of an Atom or a BracketAtom
_subshell_electrons(a) ==
    LET initial == _parse_electron_configuration(a.electron_configuration)
    IN  IF a.cls = "BracketAtom" /\ a.charge # None
        THEN Redistribute(initial, a.charge[1])
        ELSE initial

valency_layer(a) == valency_layer_of(_subshell_electrons(a))
electrons_in_valency(a) == electrons_in_valency_of(_subshell_electrons(a))

RECURSIVE SortedDescending(_)
\* tuple(sorted(list(_layers), reverse=True))
SortedDescending(ns) ==
    IF ns = {} THEN <<>>
    ELSE LET m == CHOOSE n \in ns : \A j \in ns : j <= n
         IN  <<m>> \o SortedDescending(ns \ {m})

\* Atom._calculate_electron_properties, lines 78-84: layers and electrons_by_layers
layers_of(subshell_electrons) ==
    SortedDescending({k[1] : k \in DOMAIN subshell_electrons})

electrons_by_layers_of(subshell_electrons) ==
    LET _layers == layers_of(subshell_electrons)
    IN  [i \in 1..Len(_layers) |->
            SumOver(subshell_electrons,
                    {k \in DOMAIN subshell_electrons : k[1] = _layers[i]})]

layers(a) == layers_of(_subshell_electrons(a))
electrons_by_layers(a) == electrons_by_layers_of(_subshell_electrons(a))

\* A faulty _octate_rule: the octet demanded of every atom, the duet never.
_octate_rule_octet_only(a, electrons) == electrons = 8

\* BracketAtom._octate_rule
_octate_rule(a, electrons) ==
    IF valency_layer(a) = 1 THEN electrons = 2 ELSE electrons = 8

\* BracketAtom.compute_valency
compute_valency(a, bonds) ==
    LET effective_valence_electrons ==
            electrons_in_valency(a) + (IF a.hidrogens # None THEN a.hidrogens[1] ELSE 0) + bonds
    IN  _octate_rule(a, effective_valence_electrons)

\* A faulty add_edge: the entry of the second endpoint left out.
add_edge_one_way(adj, atom1, atom2, bond_type) ==
    LET a1 == IF atom1 \in DOMAIN adj THEN adj ELSE adj @@ (atom1 :> <<>>)
        a2 == IF atom2 \in DOMAIN a1 THEN a1 ELSE a1 @@ (atom2 :> <<>>)
    IN  [a2 EXCEPT ![atom1] = Append(@, <<atom2, bond_type>>)]

(***************************************************************************)
(* Molecular Graph.                                                        *)
(***************************************************************************)
\* Graph.add_edge
add_edge(adj, atom1, atom2, bond_type) ==
    LET a1 == IF atom1 \in DOMAIN adj THEN adj ELSE adj @@ (atom1 :> <<>>)
        a2 == IF atom2 \in DOMAIN a1 THEN a1 ELSE a1 @@ (atom2 :> <<>>)
        a3 == [a2 EXCEPT ![atom1] = Append(@, <<atom2, bond_type>>)]
    IN  [a3 EXCEPT ![atom2] = Append(@, <<atom1, bond_type>>)]

RECURSIVE SumLen(_, _)
SumLen(adj, keys) ==
    IF keys = {} THEN 0
    ELSE LET k == CHOOSE x \in keys : TRUE
         IN  Len(adj[k]) + SumLen(adj, keys \ {k})

\* Number of add_edge calls the adjacency list holds.
EdgeCount(adj) == SumLen(adj, DOMAIN adj) \div 2

\* Entries held by the lists of the Parser Manager, and the edges and the
\* registered cycles of the graph.
Size(open, closed, chn, adj, cyc) ==
    Len(open) + Len(closed) + Len(chn) + EdgeCount(adj) + Len(cyc)

\* The next state stays within the bound of the model.
WithinBound == Size(current_open_rnum', current_closed_rnum', current_chain',
                    adjacency_list', cycles') <= MaxSize

\* Python's str(bool)
PyBool(b) == IF b THEN "True" ELSE "False"

\* Graph.huckel, lines 121-125: the bond of the first entry of the atom's
\* adjacency that names next_atom, None when no entry does.
RECURSIVE FirstBond(_, _)
FirstBond(entries, next_atom) ==
    IF entries = <<>> THEN None
    ELSE IF Head(entries)[1] = next_atom THEN Some(Head(entries)[2])
    ELSE FirstBond(Tail(entries), next_atom)

\* A faulty pi_electrons: the triple bond counted as three electrons.
pi_electrons_triple_three(bond_type) ==
    IF bond_type = Some(":") THEN 1
    ELSE IF bond_type = Some("=") THEN 2
    ELSE IF bond_type = Some("#") THEN 3
    ELSE 0

\* Graph.huckel, lines 127-132: what one bond adds to pi_electrons.
pi_electrons(bond_type) ==
    IF bond_type = Some(":") THEN 1
    ELSE IF bond_type = Some("=") THEN 2
    ELSE IF bond_type = Some("#") THEN 4
    ELSE 0

\* Graph.huckel, lines 119-132: the inner loop from index i (0-based) on.
RECURSIVE CyclePi(_, _, _)
CyclePi(adj, atoms_in_cycle, i) ==
    IF i >= Len(atoms_in_cycle) THEN 0
    ELSE LET atom_i == atoms_in_cycle[i + 1]
             next_atom == atoms_in_cycle[((i + 1) % Len(atoms_in_cycle)) + 1]
             entries == IF atom_i \in DOMAIN adj THEN adj[atom_i] ELSE <<>>
         IN  pi_electrons(FirstBond(entries, next_atom))
               + CyclePi(adj, atoms_in_cycle, i + 1)

\* Graph.huckel: the loop over self.cycles, returning False at the first
\* cycle whose pi_electrons break (pi_electrons - 2) % 4 == 0.
RECURSIVE huckel(_, _)
huckel(adj, cyc) ==
    IF cyc = <<>> THEN TRUE
    ELSE IF (CyclePi(adj, Head(cyc), 0) - 2) % 4 # 0 THEN FALSE
    ELSE huckel(adj, Tail(cyc))


RECURSIVE dfs(_, _, _, _)
RECURSIVE DfsNeighbours(_, _, _, _, _)
\* A faulty dfs: the neighbours are not visited.
dfs_no_descent(adj, atom, visited, current_subgraph) ==
    <<visited \cup {atom}, Append(current_subgraph, atom)>>

\* Graph.get_acyclic_subgraphs, dfs: the result is <<visited, current_subgraph>>
dfs(adj, atom, visited, current_subgraph) ==
    DfsNeighbours(adj, adj[atom], 1, visited \cup {atom}, Append(current_subgraph, atom))

\* the loop of dfs over the neighbour list, from its i-th entry on
DfsNeighbours(adj, neighbours, i, visited, current_subgraph) ==
    IF i > Len(neighbours) THEN <<visited, current_subgraph>>
    ELSE IF neighbours[i][1] \in visited
    THEN DfsNeighbours(adj, neighbours, i + 1, visited, current_subgraph)
    ELSE LET r == dfs(adj, neighbours[i][1], visited, current_subgraph)
         IN  DfsNeighbours(adj, neighbours, i + 1, r[1], r[2])

RECURSIVE DfsAll(_, _, _, _)
\* the loop of get_acyclic_subgraphs over the atoms of the adjacency list
DfsAll(adj, atoms, visited, acyclic_subgraphs) ==
    IF atoms = <<>> THEN acyclic_subgraphs
    ELSE IF Head(atoms) \in visited
    THEN DfsAll(adj, Tail(atoms), visited, acyclic_subgraphs)
    ELSE LET r == dfs(adj, Head(atoms), visited, <<>>)
         IN  DfsAll(adj, Tail(atoms), r[1], Append(acyclic_subgraphs, r[2]))

RECURSIVE KeyOrder(_)
\* The keys of a dict in one order of iteration.
KeyOrder(keys) ==
    IF keys = {} THEN <<>>
    ELSE LET k == CHOOSE x \in keys : TRUE IN <<k>> \o KeyOrder(keys \ {k})

\* Graph.get_acyclic_subgraphs as it returns: a list of lists of atoms
acyclic_subgraphs(adj) == DfsAll(adj, KeyOrder(DOMAIN adj), {}, <<>>)

\* Graph.get_acyclic_subgraphs: each subgraph given as the set of its atoms.
get_acyclic_subgraphs(adj) ==
    {{acyclic_subgraphs(adj)[k][i] : i \in 1..Len(acyclic_subgraphs(adj)[k])} :
        k \in 1..Len(acyclic_subgraphs(adj))}

\* A faulty check_valency_for_aba: each bracket atom checked with no bond.
check_valency_for_aba_no_bonds(adj) ==
    \A subgraph \in get_acyclic_subgraphs(adj) : \A a \in subgraph :
        a.cls = "BracketAtom" => compute_valency(a, 0)

\* Graph.check_valency_for_aba
check_valency_for_aba(adj) ==
    LET bracket_atoms == {a \in UNION get_acyclic_subgraphs(adj) : a.cls = "BracketAtom"}
    IN  \A a \in bracket_atoms :
            compute_valency(a, IF a \in DOMAIN adj THEN Len(adj[a]) ELSE 0)

(***************************************************************************)
(* Inputs.                                                                 *)
(***************************************************************************)
\* A str argument, as opposed to an already built atom object.
PyStr(s) == [cls |-> "str", v |-> s]

\* The atom objects the factories build from the raw symbols.
BareAtoms == {ChemAtom(s, IsLower(s)) : s \in {"C", "c"}}
BracketAtoms == {ChemBracketAtom(s, FALSE, None, None, None, None, None) : s \in {"C"}}
AtomObjs == BareAtoms

RingNums == {1, 2}
\* bond arguments: None or a bond symbol
BondArgs == {None, Some("=")}
\* bond_dot arguments of inner_branch: None, "." or a bond symbol
BondDotArgs == {None, Some("."), Some("=")}

(***************************************************************************)
(* The record of the last call: the operation, its arguments, whether it   *)
(* raised, the exception, and the value returned.                          *)
(***************************************************************************)
NoCall ==
    [op |-> "init", mol |-> <<>>, raised |-> FALSE, exc |-> "", val |-> ""]

Call(op) == [NoCall EXCEPT !.op = op]
Returned(call, val) == [call EXCEPT !.val = val]
Raised(call, exc) == [call EXCEPT !.raised = TRUE, !.exc = exc]

(***************************************************************************)
(* Parser Manager.                                                         *)
(***************************************************************************)
RECURSIVE RemoveFirst(_, _)
\* list.remove(x): drops the first occurrence of x
RemoveFirst(seq, x) ==
    IF seq = <<>> THEN <<>>
    ELSE IF Head(seq) = x THEN Tail(seq)
    ELSE <<Head(seq)>> \o RemoveFirst(Tail(seq), x)

InList(x, seq) == \E i \in 1..Len(seq) : seq[i] = x

\* dict without key k
DictDel(d, k) == [x \in DOMAIN d \ {k} |-> d[x]]
\* dict with d[k] = v
DictSet(d, k, v) == [x \in DOMAIN d \cup {k} |-> IF x = k THEN v ELSE d[x]]

\* ParserManager.__init__ / ParserManager._reset
PMInitial ==
    /\ current_open_rnum = <<>>
    /\ current_closed_rnum = <<>>
    /\ current_chain = <<>>
    /\ last_atom = NoAtom
    /\ ring_atoms = EmptyDict

pm_reset ==
    /\ current_open_rnum' = <<>>
    /\ current_closed_rnum' = <<>>
    /\ current_chain' = <<>>
    /\ last_atom' = NoAtom
    /\ ring_atoms' = EmptyDict

\* A faulty RingBondType: a single bond whenever no bond is supplied.
RingBondType_always_single(b, closing, opening) ==
    IF b # None THEN b[1] ELSE "-"

\* The bond of a ring-closure edge (chain, lines 58-60).
RingBondType(b, closing, opening) ==
    IF b # None THEN b[1]
    ELSE IF closing.aromatic /\ opening.aromatic THEN ":" ELSE "-"

\* ParserManager.chain(bond, atom, rnum)
chain(b, a, r) ==
    LET call == Call("chain") IN
    IF a # NoAtom THEN
        /\ adjacency_list' =
             IF last_atom # NoAtom
             THEN add_edge(adjacency_list, last_atom, a, IF b # None THEN b[1] ELSE "-")
             ELSE adjacency_list
        /\ last_atom' = a
        /\ ret' = Returned(call, "atom")
        /\ UNCHANGED <<current_open_rnum, current_closed_rnum, current_chain, ring_atoms, cycles>>
        /\ WithinBound
    ELSE IF r # None THEN
        IF InList(r[1], current_open_rnum) THEN
            IF r[1] \notin DOMAIN ring_atoms THEN
                \* self.ring_atoms.pop(rnum) raises KeyError
                /\ ret' = Raised(call, "KeyError")
                /\ UNCHANGED <<pm_vars, graph_vars>>
            ELSE
                LET ring_opening_atom == ring_atoms[r[1]] IN
                /\ ring_atoms' = DictDel(ring_atoms, r[1])
                /\ adjacency_list' =
                     IF last_atom # NoAtom
                     THEN add_edge(adjacency_list, last_atom, ring_opening_atom,
                                   RingBondType(b, last_atom, ring_opening_atom))
                     ELSE adjacency_list
                /\ current_open_rnum' = RemoveFirst(current_open_rnum, r[1])
                /\ current_closed_rnum' = Append(current_closed_rnum, r[1])
                /\ ret' = Returned(call, "rnum")
                /\ UNCHANGED <<current_chain, last_atom, cycles>>
                /\ WithinBound
        ELSE
            /\ ring_atoms' = IF last_atom # NoAtom
                             THEN DictSet(ring_atoms, r[1], last_atom)
                             ELSE ring_atoms
            /\ current_open_rnum' = Append(current_open_rnum, r[1])
            /\ ret' = Returned(call, "rnum")
            /\ UNCHANGED <<current_closed_rnum, current_chain, last_atom, graph_vars>>
            /\ WithinBound
    ELSE
        /\ ret' = Raised(call, "ParserException: Invalid chain rule combination")
        /\ UNCHANGED <<pm_vars, graph_vars>>

\* A faulty dot_proxy: the last atom kept.
dot_proxy_keeps_last_atom(a) ==
    /\ current_chain' = Append(current_chain, a)
    /\ ret' = Returned(Call("dot_proxy"), "atom")
    /\ UNCHANGED <<current_open_rnum, current_closed_rnum, last_atom, ring_atoms, graph_vars>>
    /\ WithinBound

\* ParserManager.dot_proxy(atom)
dot_proxy(a) ==
    /\ last_atom' = NoAtom
    /\ current_chain' = Append(current_chain, a)
    /\ ret' = Returned(Call("dot_proxy"), "atom")
    /\ UNCHANGED <<current_open_rnum, current_closed_rnum, ring_atoms, graph_vars>>
    /\ WithinBound

\* ParserManager.inner_branch(bond_dot, line): the line is a list of atoms
inner_branch(bond_dot, line) ==
    LET original_last_atom == last_atom
        adds == /\ line # <<>>
                /\ original_last_atom # NoAtom
                /\ bond_dot # None
                /\ bond_dot # Some(".")
    IN  /\ adjacency_list' =
             IF adds THEN add_edge(adjacency_list, original_last_atom, line[1], bond_dot[1])
             ELSE adjacency_list
        /\ last_atom' = original_last_atom
        /\ current_chain' = current_chain
        /\ ret' = Returned(Call("inner_branch"), "line")
        /\ UNCHANGED <<current_open_rnum, current_closed_rnum, ring_atoms, cycles>>
        /\ WithinBound

\* Chemistry.validate_aromacity
validate_aromacity(adj, cyc) == huckel(adj, cyc) /\ check_valency_for_aba(adj)

\* The methods class Graph defines (structure.py).
GraphMethods == {"add_cycle", "add_edge", "get_acyclic_subgraphs",
                 "check_valency_for_aba", "huckel"}

\* ParserManager.validate_branch()
validate_branch ==
    LET call == Call("validate_branch") IN
    /\ ret' = IF Len(current_open_rnum) # 0
                 THEN Raised(call, "ParserException: Unclosed ring numbers")
              ELSE IF current_chain = <<>>
                 THEN Returned(call, "True")
              ELSE IF "validate_graph" \notin GraphMethods
                 THEN Raised(call, "AttributeError")
              ELSE IF ~validate_aromacity(adjacency_list, cycles)
                 THEN Raised(call, "ParserException: Invalid aromaticity in molecule")
              ELSE Returned(call, "True")
    /\ UNCHANGED <<pm_vars, graph_vars>>

\* ParserManager.internal_bracket(symbol=...)
internal_bracket(symbol) ==
    LET br_atom == ChemBracketAtom(symbol, FALSE, None, None, None, None, None)
        call == Call("internal_bracket")
    IN  IF br_atom = NoAtom THEN
            /\ ret' = Raised(call, "Exception: Invalid Symbol")
            /\ UNCHANGED <<pm_vars, graph_vars>>
        ELSE
            /\ current_chain' = Append(current_chain, br_atom)
            /\ ret' = Returned(call, "atom")
            /\ UNCHANGED <<current_open_rnum, current_closed_rnum, last_atom,
                           ring_atoms, graph_vars>>
            /\ WithinBound

\* ParserManager.atom(symbol_or_bracket)
atom(symbol_or_bracket) ==
    IF symbol_or_bracket.cls # "str" THEN
        /\ ret' = Returned(Call("atom"), "atom")
        /\ UNCHANGED <<pm_vars, graph_vars>>
    ELSE
        LET atom_obj == ChemAtom(symbol_or_bracket.v, IsLower(symbol_or_bracket.v))
            call == Call("atom")
        IN  IF atom_obj = NoAtom THEN
                /\ ret' = Raised(call, "Exception: Invalid Symbol")
                /\ UNCHANGED <<pm_vars, graph_vars>>
            ELSE
                /\ current_chain' = Append(current_chain, atom_obj)
                /\ last_atom' = atom_obj
                /\ ret' = Returned(call, "atom")
                /\ UNCHANGED <<current_open_rnum, current_closed_rnum, ring_atoms, graph_vars>>
                /\ WithinBound

\* ParserManager._reset() called by a client
reset ==
    /\ pm_reset
    /\ ret' = Returned(Call("_reset"), "None")
    /\ UNCHANGED graph_vars


(***************************************************************************)
(* The validation entry point.  A molecule is the token stream the lexer   *)
(* yields for it; every token of the strings below is one character.       *)
(***************************************************************************)
Benzene == <<"c", "1", "c", "c", "c", "c", "c", "1">>  \* "c1ccccc1"
BenzeneKekule == <<"C", "1", "=", "C", "C", "=", "C", "C", "=", "C", "1">>  \* "C1=CC=CC=C1"
BenzeneHydrogens == <<"[", "H", "]", "c", "1", "c", "(", "[", "H", "]", ")", "c", "(", "[", "H", "]", ")", "c", "(", "[", "H", "]", ")", "c", "(", "[", "H", "]", ")", "c", "1", "[", "H", "]">>  \* "[H]c1c([H])c([H])c([H])c([H])c1[H]"
BenzeneBracket == <<"c", "1", "[", "c", "]", "c", "c", "c", "c", "1">>  \* "c1[c]cccc1"
Naphthalene == <<"c", "1", "c", "c", "c", "2", "c", "c", "c", "c", "c", "2", "c", "1">>  \* "c1ccc2ccccc2c1"
Toluene == <<"c", "1", "c", "c", "c", "c", "c", "1", "C">>  \* "c1ccccc1C"
Methane == <<"C">>  \* "C"
UnclosedRing == <<"C", "1">>  \* "C1"
IsotopeCarbon == <<"[", "1", "3", "C", "]">>  \* "[13C]"
OpenParen == <<"(">>  \* "("
EmptyString == <<>>  \* ""

ValidMolecules == {Benzene, BenzeneKekule, BenzeneHydrogens, BenzeneBracket, Naphthalene}
Molecules == ValidMolecules \cup
             {Toluene, Methane, UnclosedRing, IsotopeCarbon, OpenParen, EmptyString}

\* Tokens of kind semi_symbol and the literal "H" (validator/lex.py): the tokens
\* rule 'symbol' reduces.
SymbolTokens == {"C", "c", "N", "n", "H"}
DigitTokens == {"0", "1", "2", "3", "4", "5", "6", "7", "8", "9"}

\* Number of digit tokens at positions i, i+1, ... of the stream.
RECURSIVE DigitRun(_, _)
DigitRun(toks, i) ==
    IF i <= Len(toks) /\ toks[i] \in DigitTokens THEN 1 + DigitRun(toks, i + 1) ELSE 0

\* The first grammar rule the LALR parser reduces on a token stream, hence the
\* first semantic action it runs; "error" when it calls SmilesParser.error first.
\*   line := atom ...; atom := symbol | bracket_atom; symbol := semi_symbol | "H";
\*   bracket_atom := "[" internal_bracket "]"; internal_bracket := isotope? symbol ...;
\*   isotope := digit | digit digit | digit digit digit
FirstReduction(toks) ==
    IF toks = <<>> THEN "error"
    ELSE IF toks[1] \in SymbolTokens THEN "symbol"
    ELSE IF toks[1] = "[" THEN
        LET k == DigitRun(toks, 2) IN
        IF k = 0 THEN
            IF Len(toks) >= 2 /\ toks[2] \in SymbolTokens THEN "symbol" ELSE "error"
        ELSE IF k <= 3 /\ Len(toks) >= 2 + k /\ toks[2 + k] \in SymbolTokens
            THEN "isotope"
            ELSE "error"
    ELSE "error"

\* The methods class ParserManager defines (parser_manager.py).
PMMethods == {"__init__", "__enter__", "__exit__", "_reset", "chain", "dot_proxy",
              "inner_branch", "validate_branch", "internal_bracket", "listify",
              "atom", "ring_number", "int", "hcount", "charge", "chiral", "fifteen"}

\* The attribute of pm the semantic action of a rule calls:
\* symbol -> pm.symbol(semi_symbol=...), isotope -> pm.isotope(digit=...).
ActionMethod(rule) == rule

\* parser.parse(lexer.tokenize(mol)): "" when it returns, else the exception raised.
ParseOutcome(toks) ==
    LET rule == FirstReduction(toks) IN
    IF rule = "error" THEN "Exception: Error on token"
    ELSE IF ActionMethod(rule) \notin PMMethods THEN "AttributeError"
    ELSE ""

\* validate_smiles(mol)
validate_smiles(mol) ==
    LET call == [Call("validate_smiles") EXCEPT !.mol = mol]
        e == ParseOutcome(mol)
    IN  IF e = "" THEN
            /\ pm_reset
            /\ ret' = Returned(call, "(True, None)")
            /\ UNCHANGED graph_vars
        ELSE
            \* except Exception as e: raise e
            /\ ret' = Raised(call, e)
            /\ UNCHANGED <<pm_vars, graph_vars>>

(***************************************************************************)
(* The library in use: a client calls validate_smiles and the operations   *)
(* of the shared parser_manager, as the tests do.                          *)
(***************************************************************************)
Init ==
    /\ PMInitial
    /\ adjacency_list = EmptyDict
    /\ cycles = <<>>
    /\ ret = NoCall

\* Graph.add_edge called by a client
Graph_add_edge(atom1, atom2, bond_type) ==
    /\ adjacency_list' = add_edge(adjacency_list, atom1, atom2, bond_type)
    /\ ret' = Returned(Call("add_edge"), "None")
    /\ UNCHANGED <<pm_vars, cycles>>
    /\ WithinBound

\* The default of the parameter bond_type of Graph.add_edge
DefaultBondType == "-"

\* Graph.add_edge called by a client without a bond type
Graph_add_edge_default(atom1, atom2) == Graph_add_edge(atom1, atom2, DefaultBondType)

\* Graph.add_cycle called by a client
Graph_add_cycle(cycle) ==
    /\ cycles' = Append(cycles, cycle)
    /\ ret' = Returned(Call("add_cycle"), "None")
    /\ UNCHANGED <<pm_vars, adjacency_list>>
    /\ WithinBound

\* Graph.huckel called by a client
Graph_huckel ==
    /\ ret' = Returned(Call("huckel"), PyBool(huckel(adjacency_list, cycles)))
    /\ UNCHANGED <<pm_vars, graph_vars>>

BondTypes == {"-", "=", "#", ":"}
RingLens == {4, 5, 6}
Carbon == ChemAtom("C", FALSE)
AromaticCarbon == ChemAtom("c", TRUE)
\* The ring of n atoms all equal to atom a
Ring(a, n) == [i \in 1..n |-> a]
CycleArgs == {Ring(AromaticCarbon, n) : n \in RingLens}
                \cup {<<>>, <<AromaticCarbon, Carbon>>, <<Carbon, Carbon, AromaticCarbon>>}

\* A client of the Molecular Graph alone.
NextGraph ==
    \/ \E a1 \in AtomObjs, a2 \in AtomObjs, bt \in BondTypes : Graph_add_edge(a1, a2, bt)
    \/ \E a1 \in AtomObjs, a2 \in AtomObjs : Graph_add_edge_default(a1, a2)
    \/ \E cycle \in CycleArgs : Graph_add_cycle(cycle)
    \/ Graph_huckel

SpecGraph == Init /\ [][NextGraph]_vars

\* Graph.check_valency_for_aba called by a client
Graph_check_valency_for_aba ==
    /\ ret' = Returned(Call("check_valency_for_aba"),
                       PyBool(check_valency_for_aba(adjacency_list)))
    /\ UNCHANGED <<pm_vars, graph_vars>>

\* [CH3], [CH2] and [O-2] as the facade builds them
Methyl == ChemBracketAtom("C", FALSE, Some(3), None, None, None, None)
Methylene == ChemBracketAtom("C", FALSE, Some(2), None, None, None, None)
Oxide == ChemBracketAtom("O", FALSE, None, Some(0 - 2), None, None, None)
ValencyAtoms == {Carbon, Methyl, Methylene, Oxide}

\* A client that bonds bracket atoms and plain atoms and checks the valency.
NextValency ==
    \/ \E a1 \in ValencyAtoms, a2 \in ValencyAtoms : Graph_add_edge(a1, a2, "-")
    \/ Graph_check_valency_for_aba

SpecValency == Init /\ [][NextValency]_vars

(***************************************************************************)
(* The atomic model, the facade and the value parsers in direct use.       *)
(***************************************************************************)
\* The record of a call with its arguments and a structured result.
CallWith(op, args) ==
    [op |-> op, mol |-> <<>>, raised |-> FALSE, exc |-> "", val |-> "",
     args |-> args, out |-> <<>>]

\* The fields the dataclass-generated Atom.__eq__ and __hash__ go through; layers
\* and electrons_by_layers are functions of _subshell_electrons.
AtomFields(a) ==
    <<a.symbol, valency_layer(a), electrons_in_valency(a),
      a.electron_configuration, a.aromatic, _subshell_electrons(a)>>

\* Atom.__eq__ as @dataclass generates it: "NotImplemented" between classes
Atom__eq__(self, other) ==
    IF other.cls # self.cls THEN "NotImplemented"
    ELSE PyBool(AtomFields(self) = AtomFields(other))

\* BracketAtom.__eq__
BracketAtom__eq__(self, other) ==
    IF other.cls # "BracketAtom" THEN "NotImplemented"
    ELSE PyBool(/\ Atom__eq__(self, other) = "True"
                /\ self.hidrogens = other.hidrogens
                /\ self.charge = other.charge
                /\ self.isotope = other.isotope
                /\ self.chiral = other.chiral
                /\ self.mol_map = other.mol_map)

\* type(a).__eq__(a, b)
ClassEq(a, b) ==
    IF a.cls = "BracketAtom" THEN BracketAtom__eq__(a, b) ELSE Atom__eq__(a, b)

\* a == b for two atom objects built apart: the method of the left operand,
\* then the reflected one, then identity, which is false for distinct objects.
PyEq(a, b) ==
    IF ClassEq(a, b) # "NotImplemented" THEN ClassEq(a, b)
    ELSE IF ClassEq(b, a) # "NotImplemented" THEN ClassEq(b, a)
    ELSE "False"

\* hash(a): the hash of the tuple of the fields of a's class
PyHash(a) ==
    IF a.cls = "BracketAtom"
    THEN <<AtomFields(a), a.hidrogens, a.charge, a.isotope, a.chiral, a.mol_map>>
    ELSE <<AtomFields(a)>>

\* a == b and hash(a) == hash(b), evaluated by a client
PyEquals(a, b) ==
    /\ ret' = [CallWith("__eq__", <<a, b>>) EXCEPT
                 !.val = PyEq(a, b), !.out = PyBool(PyHash(a) = PyHash(b))]
    /\ UNCHANGED <<pm_vars, graph_vars>>

\* What a client reads off a constructed atom (solo_valency: atomic.py 229).
Attributes(a) ==
    [atom |-> a,
     subshells |-> _subshell_electrons(a),
     valency_layer |-> valency_layer(a),
     electrons_in_valency |-> electrons_in_valency(a),
     layers |-> layers(a),
     electrons_by_layers |-> electrons_by_layers(a),
     solo_valency |-> IF a.cls = "BracketAtom" THEN PyBool(compute_valency(a, 0)) ELSE ""]

\* Chemistry.Atom called by a client
Chemistry_Atom(symbol, aromatic) ==
    LET call == CallWith("Chemistry.Atom", <<symbol, aromatic>>)
        a == ChemAtom(symbol, aromatic)
    IN  /\ ret' = IF a = NoAtom THEN Raised(call, "Exception: Invalid Symbol")
                  ELSE [call EXCEPT !.out = Attributes(a)]
        /\ UNCHANGED <<pm_vars, graph_vars>>

\* Chemistry.BracketAtom called by a client
Chemistry_BracketAtom(symbol, aromatic, hidrogens, charge) ==
    LET call == CallWith("Chemistry.BracketAtom", <<symbol, aromatic, hidrogens, charge>>)
        a == ChemBracketAtom(symbol, aromatic, hidrogens, charge, None, None, None)
    IN  /\ ret' = IF a = NoAtom THEN Raised(call, "Exception: Invalid Symbol")
                  ELSE [call EXCEPT !.out = Attributes(a)]
        /\ UNCHANGED <<pm_vars, graph_vars>>

\* BracketAtom(symbol, electron_configuration, charge=charge), the dataclass
\* constructor, called by a client
BracketAtom_new(symbol, electron_configuration, charge) ==
    LET a == MkBracketAtom(symbol, electron_configuration, FALSE, None, charge,
                           None, None, None)
    IN  /\ ret' = [CallWith("BracketAtom", <<symbol, electron_configuration, charge>>)
                     EXCEPT !.out = Attributes(a)]
        /\ UNCHANGED <<pm_vars, graph_vars>>

\* BracketAtom.compute_valency called by a client; the atom is frozen
BracketAtom_compute_valency(a, bonds) ==
    /\ ret' = [CallWith("compute_valency", <<a, bonds>>) EXCEPT
                 !.val = PyBool(compute_valency(a, bonds)), !.out = Attributes(a)]
    /\ UNCHANGED <<pm_vars, graph_vars>>

\* The decimal digits as the lexer hands them over, and int() of one of them.
Digits == <<"0", "1", "2", "3", "4", "5", "6", "7", "8", "9">>
DigitChars == {Digits[i] : i \in 1..Len(Digits)}
IntOfDigit(d) == (CHOOSE i \in 1..Len(Digits) : Digits[i] = d) - 1

\* int(s) of a string of decimal digits, given as the sequence of its characters
RECURSIVE IntOfDigits(_)
IntOfDigits(s) ==
    IF s = <<>> THEN 0
    ELSE 10 * IntOfDigits(SubSeq(s, 1, Len(s) - 1)) + IntOfDigit(s[Len(s)])

\* A faulty fifteen: the two-digit value returned without the check against 15.
fifteen_value_unchecked(digit1, digit2) ==
    IF digit2 # None
    THEN [raised |-> FALSE, x |-> IntOfDigits(<<digit1, digit2[1]>>)]
    ELSE [raised |-> FALSE, x |-> IntOfDigits(<<digit1>>)]

\* The body of ParserManager.fifteen: digit1 + digit2 is string concatenation.
fifteen_value(digit1, digit2) ==
    IF digit2 # None
    THEN LET x == IntOfDigits(<<digit1, digit2[1]>>)
         IN  IF x > 15 THEN [raised |-> TRUE, x |-> x]
             ELSE [raised |-> FALSE, x |-> x]
    ELSE [raised |-> FALSE, x |-> IntOfDigits(<<digit1>>)]

\* ParserManager.fifteen
fifteen(digit1, digit2) ==
    LET call == CallWith("fifteen", <<digit1, digit2>>)
        r == fifteen_value(digit1, digit2)
    IN  /\ ret' = IF r.raised
                  THEN [Raised(call, "ParserException: Cannot exceed 15") EXCEPT
                          !.out = [rule |-> "fifteen"]]
                  ELSE [call EXCEPT !.out = [x |-> r.x]]
        /\ UNCHANGED <<pm_vars, graph_vars>>

\* str.isdigit of a string given as the sequence of its characters
IsDigitString(s) == s # <<>> /\ \A i \in 1..Len(s) : s[i] \in DigitChars

\* x or "" for an optional one-character string, as a sequence of characters
OrEmpty(x) == IF x = None THEN <<>> ELSE <<x[1]>>

RingNumberFailure(message) == [raised |-> TRUE, message |-> message, rnum |-> 0 - 1]

\* ParserManager.ring_number, lines 223-261: the number the arguments denote
ring_number_parse(ring_number_or_symbol, ring_number1, ring_number2) ==
    IF ring_number_or_symbol = "%" THEN
        IF ring_number1 = None
        THEN RingNumberFailure("Ring number cannot be just '%'")
        ELSE IF ~IsDigitString(<<ring_number1[1]>> \o OrEmpty(ring_number2))
        THEN RingNumberFailure("Ring number must be a digit or '%'")
        ELSE [raised |-> FALSE, message |-> "",
              rnum |-> IntOfDigits(<<ring_number1[1]>> \o OrEmpty(ring_number2))]
    ELSE IF IsDigitString(<<ring_number_or_symbol>>) THEN
        IF ring_number2 # None
        THEN RingNumberFailure("Ring number cannot have more than one digit after the first")
        ELSE IF ~IsDigitString(<<ring_number_or_symbol>> \o OrEmpty(ring_number1))
        THEN RingNumberFailure("Ring number must be a digit or a number with a leading digit")
        ELSE [raised |-> FALSE, message |-> "",
              rnum |-> IntOfDigits(<<ring_number_or_symbol>> \o OrEmpty(ring_number1))]
    ELSE RingNumberFailure("Ring number must be a digit or a number with a leading digit")

\* A faulty ring_number: the test rnum < 1 left out.
ring_number_value_zero_allowed(ring_number_or_symbol, ring_number1, ring_number2) ==
    ring_number_parse(ring_number_or_symbol, ring_number1, ring_number2)

\* The body of ParserManager.ring_number; the arguments are one-character
\* strings, the two digits optional.
ring_number_value(ring_number_or_symbol, ring_number1, ring_number2) ==
    LET parsed == ring_number_parse(ring_number_or_symbol, ring_number1, ring_number2)
    IN  IF ~parsed.raised /\ parsed.rnum < 1
        THEN RingNumberFailure("Ring number must be greater than 0")
        ELSE parsed

\* ParserManager.ring_number
ring_number(ring_number_or_symbol, ring_number1, ring_number2) ==
    LET call == CallWith("ring_number", <<ring_number_or_symbol, ring_number1, ring_number2>>)
        r == ring_number_value(ring_number_or_symbol, ring_number1, ring_number2)
    IN  /\ ret' = IF r.raised
                  THEN [Raised(call, "ParserException: " \o r.message) EXCEPT
                          !.out = [rule |-> "ring_number"]]
                  ELSE [call EXCEPT !.out = [rnum |-> r.rnum]]
        /\ UNCHANGED <<pm_vars, graph_vars>>

\* The characters a client passes to ring_number.
RingNumberChars == {"0", "1", "5", "A"}

\* A client of ParserManager.ring_number on a Parser Manager in use.
NextRingNumber ==
    \/ \E x \in RingNumberChars \cup {"%"},
          d1 \in {None} \cup {Some(c) : c \in RingNumberChars},
          d2 \in {None} \cup {Some(c) : c \in RingNumberChars} : ring_number(x, d1, d2)
    \/ atom(PyStr("C"))
    \/ chain(None, NoAtom, Some(1))

SpecRingNumber == Init /\ [][NextRingNumber]_vars

\* Atom values a client holds when it compares two of them.
EqAtoms ==
    {ChemAtom("C", FALSE), ChemAtom("c", TRUE), ChemAtom("N", FALSE),
     MkAtom("C", <<>>, FALSE),
     ChemBracketAtom("C", FALSE, None, None, None, None, None),
     ChemBracketAtom("C", FALSE, Some(0), None, None, None, None),
     ChemBracketAtom("c", FALSE, None, None, None, None, None),
     ChemBracketAtom("He", FALSE, Some(1), None, None, None, None),
     ChemBracketAtom("He", FALSE, Some(2), None, None, None, None),
     ChemBracketAtom("C", FALSE, None, Some(0), None, None, None),
     ChemBracketAtom("C", FALSE, None, None, Some(13), None, None),
     ChemBracketAtom("C", FALSE, None, None, None, Some("clockwise"), None),
     ChemBracketAtom("C", FALSE, None, None, None, None, Some(1))}

\* A client comparing and hashing atoms.
NextEq ==
    \E a \in EqAtoms, b \in EqAtoms : PyEquals(a, b)

SpecEq == Init /\ [][NextEq]_vars

\* The charges, hydrogen counts and bond counts a client of the atom class tries.
Charges == {None} \cup {Some(c) : c \in (0 - 3)..3}
ValencyCharges == {None, Some(0 - 1), Some(1)}
Hcounts == {None, Some(1), Some(3)}
BondCounts == {0, 1, 2, 4}

\* The atoms compute_valency is called on.
ChargedAtoms ==
    {ChemBracketAtom(s, FALSE, h, c, None, None, None) :
        s \in pt_symbols, h \in Hcounts, c \in ValencyCharges}

\* A client of the BracketAtom class.
NextAtomic ==
    \/ \E s \in pt_symbols, cfg \in {"table", "empty"}, c \in Charges :
          BracketAtom_new(s, IF cfg = "table" THEN look_up_table(s) ELSE <<>>, c)
    \/ \E a \in ChargedAtoms, bonds \in BondCounts : BracketAtom_compute_valency(a, bonds)

SpecAtomic == Init /\ [][NextAtomic]_vars

\* The symbols a client of the facade passes.
FacadeSymbols == {"C", "c", "N", "HE", "X", "x"}

\* A client of the facade and of ParserManager.atom.
NextFacade ==
    \/ \E s \in FacadeSymbols, ar \in BOOLEAN : Chemistry_Atom(s, ar)
    \/ \E s \in FacadeSymbols, ar \in BOOLEAN, c \in {None, Some(0 - 1)} :
          Chemistry_BracketAtom(s, ar, None, c)
    \/ \E x \in {PyStr(s) : s \in RawSymbols} : atom(x)
    \/ reset

SpecFacade == Init /\ [][NextFacade]_vars

\* A client of ParserManager.fifteen.
NextFifteen ==
    \E d1 \in DigitChars, d2 \in {None} \cup {Some(d) : d \in DigitChars} : fifteen(d1, d2)

SpecFifteen == Init /\ [][NextFifteen]_vars

\* Graph.get_acyclic_subgraphs called by a client
Graph_get_acyclic_subgraphs ==
    /\ ret' = [CallWith("get_acyclic_subgraphs", <<>>) EXCEPT
                 !.out = acyclic_subgraphs(adjacency_list)]
    /\ UNCHANGED <<pm_vars, graph_vars>>

\* A client that builds a graph and asks for its subgraphs.
NextComponents ==
    \/ \E a1 \in ValencyAtoms, a2 \in ValencyAtoms : Graph_add_edge(a1, a2, "-")
    \/ Graph_get_acyclic_subgraphs

SpecComponents == Init /\ [][NextComponents]_vars

RnumArgs == {None} \cup {Some(n) : n \in RingNums}

\* A client of the Parser Manager alone.
NextPM ==
    \/ \E b \in BondArgs, a \in AtomObjs \cup {NoAtom}, r \in RnumArgs : chain(b, a, r)
    \/ \E a \in AtomObjs : dot_proxy(a)
    \/ \E bd \in BondDotArgs, line \in {<<>>} \cup {<<a>> : a \in AtomObjs} : inner_branch(bd, line)
    \/ validate_branch
    \/ \E s \in {"C", "X"} : internal_bracket(s)
    \/ \E x \in {PyStr(s) : s \in RawSymbols} \cup BracketAtoms : atom(x)
    \/ reset

SpecPM == Init /\ [][NextPM]_vars

\* The Parser Manager driven as the grammar reduces a line of bare atoms and
\* ring numbers: the atom reduction runs ParserManager.atom, and the chain
\* reduction that follows it passes the atom just returned to chain.
NextLine ==
    \/ \E s \in {"C", "c"} : atom(PyStr(s))
    \/ \E b \in BondArgs : ret.op = "atom" /\ ~ret.raised /\ chain(b, last_atom, None)
    \/ \E b \in BondArgs, n \in RingNums : chain(b, NoAtom, Some(n))
    \/ reset

SpecLine == Init /\ [][NextLine]_vars

\* The Parser Manager driven as the grammar reduces a line with branches of
\* one atom: inner_branch runs when the branch's line has been reduced, that is
\* after the atom reduction of the atom inside the parentheses.
NextBranch ==
    \/ \E s \in {"C", "c"} : atom(PyStr(s))
    \/ \E b \in BondArgs : ret.op = "atom" /\ ~ret.raised /\ chain(b, last_atom, None)
    \/ \E bd \in BondDotArgs :
          /\ ret.op = "atom" /\ ~ret.raised
          /\ Len(current_chain) >= 2
          /\ inner_branch(bd, <<last_atom>>)
    \/ reset

SpecBranch == Init /\ [][NextBranch]_vars

\* A client of validate_smiles that also uses the shared parser_manager.
Next ==
    \/ \E mol \in Molecules : validate_smiles(mol)
    \/ \E b \in BondArgs, a \in AtomObjs \cup {NoAtom}, r \in RnumArgs : chain(b, a, r)
    \/ \E x \in {PyStr(s) : s \in RawSymbols} : atom(x)
    \/ validate_branch
    \/ reset

Spec == Init /\ [][Next]_vars

(***************************************************************************)
(* Properties of the validation entry point (under Spec).                  *)
(***************************************************************************)
PMEmpty ==
    /\ current_open_rnum = <<>>
    /\ current_closed_rnum = <<>>
    /\ current_chain = <<>>
    /\ last_atom = NoAtom
    /\ ring_atoms = EmptyDict

GraphEmpty == adjacency_list = EmptyDict /\ cycles = <<>>

\* C1: validate returns a pair for every input and never lets an error
\* escape to the caller.
C1_validate_returns_a_pair ==
    ret.op = "validate_smiles" => ~ret.raised /\ ret.val # ""

\* C2: the verdict on each literal acceptance string is the stated one: the
\* five benzene-like strings are valid, "c1ccccc1C" is not reported valid.
C2_acceptance_verdicts ==
    ret.op = "validate_smiles" =>
        /\ ret.mol \in ValidMolecules => ret.val = "(True, None)"
        /\ ret.mol = Toluene => ret.val # "(True, None)"

\* The outcome of validate_smiles(mol) on freshly constructed instances.
C3_fresh_outcome(mol) ==
    IF ParseOutcome(mol) = "" THEN [raised |-> FALSE, exc |-> "", val |-> "(True, None)"]
    ELSE [raised |-> TRUE, exc |-> ParseOutcome(mol), val |-> ""]

\* C3: of two validate calls made one after the other on the shared
\* instances, the second ends as it does on fresh instances, and "C" after
\* the unclosed-ring string "C1" is reported valid.
C3_sequential_calls_independent ==
    [][(ret.op = "validate_smiles" /\ ret'.op = "validate_smiles") =>
         /\ [raised |-> ret'.raised, exc |-> ret'.exc, val |-> ret'.val]
               = C3_fresh_outcome(ret'.mol)
         /\ (ret.mol = UnclosedRing /\ ret'.mol = Methane) => ret'.val = "(True, None)"
      ]_vars

\* C4: when a validate call has ended, by returning or by raising, the open
\* and closed ring numbers, the chain, the last atom and the ring-opening
\* atoms of the Parser Manager are empty.
C4_parser_manager_empty_after_validate ==
    ret.op = "validate_smiles" => PMEmpty

\* C5: when a validate call has ended, by returning or by raising, the graph
\* of the Chemistry Facade has no edge and no registered ring.
C5_graph_empty_after_validate ==
    ret.op = "validate_smiles" => GraphEmpty

\* C7: validate_branch raises "Unclosed ring numbers" whenever a ring number
\* is open, and validating a string that leaves a ring open ends with that
\* error.
C7_unclosed_ring_numbers ==
    /\ (ret.op = "validate_branch" /\ current_open_rnum # <<>>) =>
           ret.exc = "ParserException: Unclosed ring numbers"
    /\ (ret.op = "validate_smiles" /\ ret.mol = UnclosedRing) =>
           ret.exc = "ParserException: Unclosed ring numbers"

(***************************************************************************)
(* Properties of the Parser Manager (under SpecPM).                        *)
(***************************************************************************)
\* C6: a further occurrence of a ring number that was opened and closed
\* raises ParserException "Ring number already closed" and leaves the number
\* out of the open ring numbers.
C6_closed_ring_number_not_reopened ==
    [][\A b \in BondArgs, n \in RingNums :
         (/\ InList(n, current_closed_rnum)
          /\ ~InList(n, current_open_rnum)
          /\ chain(b, NoAtom, Some(n)))
         => /\ ret'.exc = "ParserException: Ring number already closed"
            /\ ~InList(n, current_open_rnum')
      ]_vars

\* The last entry of atom a's adjacency.
LastEntry(adj, a) == adj[a][Len(adj[a])]

\* C8: the first occurrence of a ring number records the last atom as its
\* opener and opens the number without adding an edge; the next occurrence
\* adds one edge from the last atom to the opener and moves the number from
\* the open to the closed ring numbers.
C8_ring_number_opens_then_closes ==
    [][\A b \in BondArgs, n \in RingNums :
         chain(b, NoAtom, Some(n)) =>
           IF ~InList(n, current_open_rnum)
           THEN /\ InList(n, current_open_rnum')
                /\ adjacency_list' = adjacency_list
                /\ last_atom # NoAtom =>
                      n \in DOMAIN ring_atoms' /\ ring_atoms'[n] = last_atom
           ELSE /\ ~InList(n, current_open_rnum')
                /\ InList(n, current_closed_rnum')
                /\ (last_atom # NoAtom /\ n \in DOMAIN ring_atoms) =>
                      /\ EdgeCount(adjacency_list') = EdgeCount(adjacency_list) + 1
                      /\ LastEntry(adjacency_list', last_atom)[1] = ring_atoms[n]
      ]_vars

\* C9: the edge a ring closure adds carries the bond supplied on the
\* closing occurrence; with no bond supplied it carries ":" when the closing
\* and the opening atom are both aromatic and "-" otherwise.
C9_ring_closure_bond_type ==
    [][\A b \in BondArgs, n \in RingNums :
         (/\ InList(n, current_open_rnum)
          /\ n \in DOMAIN ring_atoms
          /\ last_atom # NoAtom
          /\ chain(b, NoAtom, Some(n)))
         => LastEntry(adjacency_list', last_atom) =
              <<ring_atoms[n],
                CASE b # None -> b[1]
                  [] b = None /\ last_atom.aromatic /\ ring_atoms[n].aromatic -> ":"
                  [] OTHER -> "-">>
      ]_vars

\* A ring closure with no bond supplied has joined two aromatic atoms.
C9_aromatic_closure_reached ==
    /\ ret.op = "chain"
    /\ current_closed_rnum # <<>>
    /\ \E a \in DOMAIN adjacency_list : \E i \in 1..Len(adjacency_list[a]) :
          adjacency_list[a][i][2] = ":"

(***************************************************************************)
(* Properties of the Molecular Graph (under SpecGraph).                    *)
(***************************************************************************)
\* The bond recorded between a and b: the first one a's adjacency holds for b.
C10_bond(a, b) ==
    LET es == IF a \in DOMAIN adjacency_list THEN adjacency_list[a] ELSE <<>>
        idx == {i \in 1..Len(es) : es[i][1] = b}
    IN  IF idx = {} THEN "absent"
        ELSE es[CHOOSE i \in idx : \A j \in idx : i <= j][2]

C10_contribution(bond) ==
    CASE bond = ":" -> 1 [] bond = "=" -> 2 [] bond = "#" -> 4 [] OTHER -> 0

RECURSIVE C10_sum(_, _)
\* The contributions of the pairs (ring[i], ring[i+1]) for i <= k, the
\* successor of the last atom being the first.
C10_sum(ring, k) ==
    IF k = 0 THEN 0
    ELSE C10_contribution(C10_bond(ring[k], ring[IF k = Len(ring) THEN 1 ELSE k + 1]))
           + C10_sum(ring, k - 1)

\* C10: huckel returns true iff the bond contributions around every
\* registered ring, the wraparound pair included, sum to 2 modulo 4; hence
\* true with no ring, true for an all-aromatic 6-ring and false for
\* all-aromatic 4- and 5-rings.
C10_huckel_rule ==
    ret.op = "huckel" =>
        /\ ret.val = "True" <=>
              \A k \in 1..Len(cycles) : C10_sum(cycles[k], Len(cycles[k])) % 4 = 2
        /\ cycles = <<>> => ret.val = "True"
        /\ \A n \in RingLens :
              (cycles = <<Ring(AromaticCarbon, n)>>
                 /\ C10_bond(AromaticCarbon, AromaticCarbon) = ":")
              => (ret.val = "True" <=> n = 6)

\* huckel has accepted a graph whose only ring is an all-aromatic 6-ring.
C10_aromatic_six_ring_accepted ==
    /\ ret.op = "huckel"
    /\ ret.val = "True"
    /\ cycles = <<Ring(AromaticCarbon, 6)>>
    /\ C10_bond(AromaticCarbon, AromaticCarbon) = ":"


\* C12: with no ring number open, validate_branch returns True on an empty
\* chain; on a non-empty chain it returns True exactly when the Hueckel
\* check and the valency check of the bracket atoms hold, and otherwise
\* raises ParserException "Invalid aromaticity in molecule".
C12_validate_branch_verdict ==
    (ret.op = "validate_branch" /\ current_open_rnum = <<>>) =>
        IF current_chain = <<>> \/ validate_aromacity(adjacency_list, cycles)
        THEN ~ret.raised /\ ret.val = "True"
        ELSE ret.exc = "ParserException: Invalid aromaticity in molecule"

(***************************************************************************)
(* Properties of the valency check (under SpecValency).                    *)
(***************************************************************************)
\* The bracket atoms that are a key of the adjacency list or a neighbour.
C11_bracket_atoms ==
    {a \in DOMAIN adjacency_list : a.cls = "BracketAtom"}

C13_atom_equality_by_symbol ==
    (ret.op = "__eq__" /\ ret.args[1].cls = "Atom" /\ ret.args[2].cls = "Atom") =>
        /\ ret.val = PyBool(ret.args[1].symbol = ret.args[2].symbol)
        /\ ret.out = PyBool(ret.args[1].symbol = ret.args[2].symbol)

\* C14: two BracketAtoms are equal iff they are equal as Atoms (C13: by symbol)
\* and have the same hidrogens, charge, isotope, chiral and mol_map; an Atom and
\* a BracketAtom are never equal, in either order.
C14_bracket_atom_equality ==
    ret.op = "__eq__" =>
        LET a == ret.args[1]
            b == ret.args[2]
        IN  /\ (a.cls = "BracketAtom" /\ b.cls = "BracketAtom") =>
                   (ret.val = "True" <=>
                       /\ a.symbol = b.symbol
                       /\ a.hidrogens = b.hidrogens
                       /\ a.charge = b.charge
                       /\ a.isotope = b.isotope
                       /\ a.chiral = b.chiral
                       /\ a.mol_map = b.mol_map)
            /\ a.cls # b.cls => ret.val = "False"

\* C15: compute_valency(bonds) is true iff electrons_in_valency + hidrogens (0
\* when absent) + bonds is exactly 2 when valency_layer is 1 and exactly 8
\* otherwise; the atom is left as it was, and solo_valency is compute_valency(0).
C15_stable_count(out) == IF out.valency_layer = 1 THEN 2 ELSE 8

C15_hidrogens(a) == IF a.hidrogens = None THEN 0 ELSE a.hidrogens[1]

C15_compute_valency ==
    /\ ret.op = "compute_valency" =>
          /\ ret.val = PyBool(ret.out.electrons_in_valency + C15_hidrogens(ret.args[1])
                                 + ret.args[2] = C15_stable_count(ret.out))
          /\ ret.out.atom = ret.args[1]
          /\ ret.out.solo_valency =
                 PyBool(ret.out.electrons_in_valency + C15_hidrogens(ret.args[1])
                           = C15_stable_count(ret.out))
    /\ ret.op = "BracketAtom" =>
          ret.out.solo_valency =
              PyBool(ret.out.electrons_in_valency = C15_stable_count(ret.out))

\* Li with charge +1 keeps 1s2 alone and is stable by the duet.
C15_duet_reached ==
    /\ ret.op = "compute_valency"
    /\ ret.args[1].symbol = "Li"
    /\ ret.out.valency_layer = 1
    /\ ret.val = "True"

\* C16: a BracketAtom built with charge c has the subshell mapping of the
\* reference redistribution: for c > 0, c electrons leave the subshells from the
\* outermost inwards (descending n, then f > d > p > s) and emptied entries are
\* deleted; for c < 0, |c| electrons top up the existing subshells from the
\* innermost outwards up to s=2, p=6, d=10, f=14, and the remainder goes into new
\* s shells of at most 2 electrons from the next unused principal quantum number
\* on.  O(-2): 6 p electrons, 8 valence electrons; C(+2): 0 p electrons, 2
\* valence electrons; Ne(-1): one electron in 3s, valency_layer 3.
RECURSIVE C16_sum(_, _)
C16_sum(f, keys) ==
    IF keys = {} THEN 0
    ELSE LET k == CHOOSE x \in keys : TRUE IN f[k] + C16_sum(f, keys \ {k})

C16_letter_order(s) == CASE s = "s" -> 0 [] s = "p" -> 1 [] s = "d" -> 2 [] s = "f" -> 3

C16_capacity(s) == CASE s = "s" -> 2 [] s = "p" -> 6 [] s = "d" -> 10 [] s = "f" -> 14

\* subshell j lies outside subshell k
C16_outer(j, k) ==
    j[1] > k[1] \/ (j[1] = k[1] /\ C16_letter_order(j[2]) > C16_letter_order(k[2]))

C16_max0(x) == IF x > 0 THEN x ELSE 0

C16_min(x, y) == IF x < y THEN x ELSE y

\* what is left in k after c electrons have left from the outside inwards
C16_left(m, k, c) ==
    m[k] - C16_min(m[k], C16_max0(c - C16_sum(m, {j \in DOMAIN m : C16_outer(j, k)})))

C16_removal(m, c) ==
    [k \in {j \in DOMAIN m : C16_left(m, j, c) > 0} |-> C16_left(m, k, c)]

C16_space(m) == [k \in DOMAIN m |-> C16_capacity(k[2]) - m[k]]

\* what k holds after e electrons have topped up from the inside outwards
C16_topped(m, k, e) ==
    m[k] + C16_min(C16_space(m)[k],
                   C16_max0(e - C16_sum(C16_space(m), {j \in DOMAIN m : C16_outer(k, j)})))

C16_highest(m) ==
    IF DOMAIN m = {} THEN 0 ELSE CHOOSE n \in {k[1] : k \in DOMAIN m} : \A k \in DOMAIN m : k[1] <= n

C16_addition(m, e) ==
    LET rest == C16_max0(e - C16_sum(C16_space(m), DOMAIN m))
        opened == {<<C16_highest(m) + i, "s">> : i \in 1..((rest + 1) \div 2)}
    IN  [k \in DOMAIN m \cup opened |->
            IF k \in DOMAIN m THEN C16_topped(m, k, e)
            ELSE C16_min(2, rest - 2 * (k[1] - C16_highest(m) - 1))]

C16_reference(m, c) ==
    IF c > 0 THEN C16_removal(m, c) ELSE IF c < 0 THEN C16_addition(m, 0 - c) ELSE m

C16_in_p(m) == C16_sum(m, {k \in DOMAIN m : k[2] = "p"})

C16_ion_redistribution ==
    (ret.op = "BracketAtom" /\ ret.args[3] # None) =>
        /\ ret.out.subshells =
               C16_reference(_parse_electron_configuration(ret.args[2]), ret.args[3][1])
        /\ (ret.args = <<"O", look_up_table("O"), Some(0 - 2)>>) =>
               C16_in_p(ret.out.subshells) = 6 /\ ret.out.electrons_in_valency = 8
        /\ (ret.args = <<"C", look_up_table("C"), Some(2)>>) =>
               C16_in_p(ret.out.subshells) = 0 /\ ret.out.electrons_in_valency = 2
        /\ (ret.args = <<"Ne", look_up_table("Ne"), Some(0 - 1)>>) =>
               /\ <<3, "s">> \in DOMAIN ret.out.subshells
               /\ ret.out.subshells[<<3, "s">>] = 1
               /\ ret.out.valency_layer = 3

\* C17: Chemistry.Atom and Chemistry.BracketAtom return an atom whose symbol is
\* the title-cased form of the given one ('c' gives 'C'); when that form is not
\* a known element they fail with an invalid-symbol error and construct nothing.
C17_title_cased ==
    [s \in FacadeSymbols |->
        CASE s \in {"C", "c"} -> "C" [] s = "N" -> "N" [] s = "HE" -> "He"
          [] s \in {"X", "x"} -> "X"]

C17_facade_symbol ==
    ret.op \in {"Chemistry.Atom", "Chemistry.BracketAtom"} =>
        IF C17_title_cased[ret.args[1]] \in pt_symbols
        THEN ~ret.raised /\ ret.out.atom.symbol = C17_title_cased[ret.args[1]]
        ELSE ret.raised /\ ret.exc = "Exception: Invalid Symbol" /\ ret.out = <<>>

\* 'c' has given an atom of symbol 'C'
C17_lowercase_carbon_built ==
    ret.op = "Chemistry.Atom" /\ ret.args[1] = "c" /\ ~ret.raised /\ ret.out.atom.symbol = "C"

\* C18: a bare atom built by ParserManager.atom is aromatic iff its raw symbol
\* string is lowercase, and a bracket atom built by Chemistry.BracketAtom from a
\* symbol that differs from its title-cased form is aromatic whatever the
\* explicit aromatic argument.
C18_lowercase == {"c"}

C18_bare_atom(s) ==
    (atom(PyStr(s)) /\ ~ret'.raised) =>
        /\ last_atom'.aromatic = (s \in C18_lowercase)
        /\ current_chain'[Len(current_chain')] = last_atom'

C18_bracket_atom ==
    (/\ ret.op = "Chemistry.BracketAtom"
     /\ ~ret.raised
     /\ C17_title_cased[ret.args[1]] # ret.args[1]) => ret.out.atom.aromatic

C19_digit_value ==
    [d \in DigitChars |->
        CASE d = "0" -> 0 [] d = "1" -> 1 [] d = "2" -> 2 [] d = "3" -> 3 [] d = "4" -> 4
          [] d = "5" -> 5 [] d = "6" -> 6 [] d = "7" -> 7 [] d = "8" -> 8 [] d = "9" -> 9]

C19_value(args) ==
    IF args[2] = None THEN C19_digit_value[args[1]]
    ELSE 10 * C19_digit_value[args[1]] + C19_digit_value[args[2][1]]

C19_fifteen ==
    ret.op = "fifteen" =>
        IF C19_value(ret.args) > 15
        THEN /\ ret.raised
             /\ ret.exc = "ParserException: Cannot exceed 15"
             /\ ret.out.rule = "fifteen"
        ELSE /\ ~ret.raised
             /\ ret.out.x = C19_value(ret.args)
             /\ ret.out.x \in 0..15

\* fifteen("1", "5") has returned 15
C19_fifteen_returned ==
    ret.op = "fifteen" /\ ret.args = <<"1", Some("5")>> /\ ~ret.raised /\ ret.out.x = 15

\* C20: every failure raised by the facade, the graph, the parser manager or a
\* grammar action is a ParserException with rule, parameter and message; in
\* particular ParserManager.atom on an unknown symbol fails with the
\* ParserException of rule 'Atom' and message 'Invalid Atom Symbol: <symbol>'.
C20_parser_exceptions ==
    {"ParserException: Invalid Atom Symbol",
     "ParserException: Cannot exceed 15",
     "ParserException: Invalid aromaticity in molecule",
     "ParserException: Invalid chain rule combination",
     "ParserException: Ring number already closed",
     "ParserException: Unclosed ring numbers"}

C20_failures_are_parser_exceptions ==
    ret.raised =>
        /\ ret.exc \in C20_parser_exceptions
        /\ ret.op = "atom" => ret.exc = "ParserException: Invalid Atom Symbol"

\* C21: for a chain element 'bond? atom' reduced in grammar order (the atom
\* reduction, then chain(bond, atom)), chain adds exactly one edge, joining the
\* atom that was the last atom before the new atom was emitted and the new atom,
\* labelled with the bond given or '-'; the new atom is then the last atom; with
\* no last atom before, no edge is added.
\* In a line of bare atoms every emitted atom is appended to current_chain, so
\* the last atom before the newest one is the entry before the last.
C21_previous ==
    IF Len(current_chain) >= 2 THEN current_chain[Len(current_chain) - 1] ELSE NoAtom

C21_chain_element(b) ==
    (ret.op = "atom" /\ ~ret.raised /\ chain(b, last_atom, None)) =>
        /\ adjacency_list' =
               IF C21_previous # NoAtom
               THEN add_edge(adjacency_list, C21_previous, last_atom,
                             IF b = None THEN "-" ELSE b[1])
               ELSE adjacency_list
        /\ last_atom' = current_chain[Len(current_chain)]

C21_chain_bonds_previous_atom ==
    [][\A b \in BondArgs : C21_chain_element(b)]_vars

\* C22: after a branch '( ... )' has been reduced, the last-atom pointer is the
\* atom that was the last atom before the branch's first element was emitted,
\* so what follows the branch is bonded to that atom and not to the last atom
\* inside the branch.
\* For a branch of one bare atom, the atom before the branch is the entry of
\* current_chain before the branch's atom.
C22_before_branch == current_chain[Len(current_chain) - 1]

C22_branch(bd) ==
    (/\ ret.op = "atom" /\ ~ret.raised
     /\ Len(current_chain) >= 2
     /\ inner_branch(bd, <<last_atom>>)) => last_atom' = C22_before_branch

C22_branch_restores_last_atom ==
    [][\A bd \in BondDotArgs : C22_branch(bd)]_vars

\* C23: each time a ring number is closed exactly one ring is appended to the
\* graph's cycles, from the opening atom to the closing atom; every pair of
\* consecutive entries of a registered ring, the wraparound pair included, has
\* an edge in adjacency_list; rings are registered at no other moment.
C23_closes(b, n) ==
    /\ InList(n, current_open_rnum)
    /\ chain(b, NoAtom, Some(n))
    /\ ~ret'.raised

C23_bonded(a, c) ==
    /\ a \in DOMAIN adjacency_list
    /\ \E i \in 1..Len(adjacency_list[a]) : adjacency_list[a][i][1] = c

C23_rings_bonded ==
    \A k \in 1..Len(cycles) :
        \A i \in 1..Len(cycles[k]) :
            C23_bonded(cycles[k][i], cycles[k][(i % Len(cycles[k])) + 1])

C23_ring_step ==
    IF \E b \in BondArgs, n \in RingNums : C23_closes(b, n)
    THEN /\ Len(cycles') = Len(cycles) + 1
         /\ SubSeq(cycles', 1, Len(cycles)) = cycles
         /\ cycles'[Len(cycles')][Len(cycles'[Len(cycles')])] = last_atom
    ELSE cycles' = cycles

C23_ring_registered_on_closure ==
    [] C23_rings_bonded /\ [][C23_ring_step]_vars

\* C24: two distinct atom occurrences with the same symbol and annotations are
\* distinct graph nodes with separate adjacency-list entries: a chain of k
\* same-element atoms yields k nodes, a ring of six unannotated aromatic carbons
\* six nodes with two neighbours each.
\* Every add_edge call of the client joins two distinct occurrences, so no node
\* is its own neighbour, a graph with an edge has at least two nodes, and each
\* call lengthens the neighbour list of each of its two endpoints by one.
C24_degree(adj, a) == IF a \in DOMAIN adj THEN Len(adj[a]) ELSE 0

C24_distinct_nodes ==
    /\ \A a \in DOMAIN adjacency_list :
           \A i \in 1..Len(adjacency_list[a]) : adjacency_list[a][i][1] # a
    /\ adjacency_list # <<>> => Cardinality(DOMAIN adjacency_list) >= 2

C24_join(a1, a2, bt) ==
    Graph_add_edge(a1, a2, bt) =>
        /\ C24_degree(adjacency_list', a1) = C24_degree(adjacency_list, a1) + 1
        /\ C24_degree(adjacency_list', a2) = C24_degree(adjacency_list, a2) + 1

C24_occurrences_are_nodes ==
    /\ [] C24_distinct_nodes
    /\ [][\A a1 \in AtomObjs, a2 \in AtomObjs, bt \in BondTypes : C24_join(a1, a2, bt)]_vars

\* C25: ring_number accepts only a bare single digit or '%' followed by exactly
\* two digits and returns the integer it denotes, which is at least 1;
\* non-digit text, a stray extra digit, a bare '%' or a value below 1 fails with
\* a ParserException, and a failing call leaves the open and closed ring
\* collections unchanged.
C25_is_digit(x) == x # None /\ x[1] \in DigitChars

C25_absent_or_digit(x) == x = None \/ C25_is_digit(x)

\* the decimal value of a leading digit character and an optional second digit
C25_decimal(first, second) ==
    IF second = None THEN C19_digit_value[first]
    ELSE 10 * C19_digit_value[first] + C19_digit_value[second[1]]

C25_value(args) ==
    IF args[1] = "%" THEN C25_decimal(args[2][1], args[3]) ELSE C25_decimal(args[1], args[2])

C25_messages ==
    {"ParserException: Ring number cannot be just '%'",
     "ParserException: Ring number must be a digit or '%'",
     "ParserException: Ring number cannot have more than one digit after the first",
     "ParserException: Ring number must be a digit or a number with a leading digit",
     "ParserException: Ring number must be greater than 0"}

C25_verdict(accepted_form) ==
    ret.op = "ring_number" =>
        IF accepted_form /\ C25_value(ret.args) >= 1
        THEN ~ret.raised /\ ret.out.rnum = C25_value(ret.args) /\ ret.out.rnum >= 1
        ELSE ret.raised /\ ret.exc \in C25_messages /\ ret.out.rule = "ring_number"

C25_failure_changes_nothing ==
    [][(/\ ret'.op = "ring_number"
        /\ ret'.raised
        /\ ring_number(ret'.args[1], ret'.args[2], ret'.args[3])) =>
            UNCHANGED <<current_open_rnum, current_closed_rnum>>]_vars

\* the forms of the claim: one digit alone, or '%' and exactly two digits
C25_strict_form(args) ==
    \/ args[1] \in DigitChars /\ args[2] = None /\ args[3] = None
    \/ args[1] = "%" /\ C25_is_digit(args[2]) /\ C25_is_digit(args[3])

C25_lenient_form(args) ==
    \/ args[1] \in DigitChars /\ C25_absent_or_digit(args[2]) /\ args[3] = None
    \/ args[1] = "%" /\ C25_is_digit(args[2]) /\ C25_absent_or_digit(args[3])

C26_dot(a) ==
    dot_proxy(a) =>
        /\ last_atom' = NoAtom
        /\ UNCHANGED <<adjacency_list, cycles>>
        /\ UNCHANGED <<current_open_rnum, current_closed_rnum, ring_atoms>>

\* the chain element reduced right after the dot finds no last atom to bond to
C26_after_dot(b, a) ==
    (ret.op = "dot_proxy" /\ chain(b, a, None)) => UNCHANGED adjacency_list

C27_count(neighbours, entry) ==
    Cardinality({i \in 1..Len(neighbours) : neighbours[i] = entry})

C27_symmetric ==
    \A a \in DOMAIN adjacency_list :
        /\ \A i \in 1..Len(adjacency_list[a]) : adjacency_list[a][i][1] \in DOMAIN adjacency_list
        /\ \A b \in DOMAIN adjacency_list, t \in BondTypes :
               C27_count(adjacency_list[a], <<b, t>>) = C27_count(adjacency_list[b], <<a, t>>)

C27_last(adj, a) == adj[a][Len(adj[a])]

C27_calls ==
    /\ \A a1 \in AtomObjs, a2 \in AtomObjs :
           /\ Graph_add_edge_default(a1, a2) =>
                  /\ C27_last(adjacency_list', a2) = <<a1, "-">>
                  /\ C27_count(adjacency_list'[a1], <<a2, "-">>) >= 1
           /\ \A bt \in BondTypes : Graph_add_edge(a1, a2, bt) => cycles' = cycles
    /\ \A cycle \in CycleArgs : Graph_add_cycle(cycle) => adjacency_list' = adjacency_list

C27_adjacency_symmetric ==
    [] C27_symmetric /\ [][C27_calls]_vars

\* two edges hold between the plain and the aromatic carbon
C27_two_edges_reached ==
    /\ ret.op = "add_edge"
    /\ Carbon \in DOMAIN adjacency_list
    /\ AromaticCarbon \in DOMAIN adjacency_list
    /\ Len(adjacency_list[Carbon]) >= 2
    /\ cycles # <<>>

\* C28: get_acyclic_subgraphs returns the connected components of the graph:
\* every atom of the adjacency list appears in exactly one returned list, two
\* atoms share a list iff a path of edges of any bond type joins them
\* (components with cycles included), and the call leaves the graph unchanged.
RECURSIVE C28_joined(_, _)
\* the atoms a path of edges joins to one of the atoms of 'seen'
C28_joined(adj, seen) ==
    LET more == UNION {{adj[a][i][1] : i \in 1..Len(adj[a])} : a \in seen} \ seen
    IN  IF more = {} THEN seen ELSE C28_joined(adj, seen \cup more)

C28_places(lists, a) ==
    {<<k, i>> \in (1..Len(lists)) \X (1..Cardinality(DOMAIN adjacency_list)) :
        i <= Len(lists[k]) /\ lists[k][i] = a}

C28_components ==
    ret.op = "get_acyclic_subgraphs" =>
        /\ \A a \in DOMAIN adjacency_list : Cardinality(C28_places(ret.out, a)) = 1
        /\ \A k \in 1..Len(ret.out) : \A i \in 1..Len(ret.out[k]) :
               ret.out[k][i] \in DOMAIN adjacency_list
        /\ \A a \in DOMAIN adjacency_list, b \in DOMAIN adjacency_list :
               (\E k \in 1..Len(ret.out) :
                    \E i \in 1..Len(ret.out[k]), j \in 1..Len(ret.out[k]) :
                        ret.out[k][i] = a /\ ret.out[k][j] = b)
                   <=> b \in C28_joined(adjacency_list, {a})

C29_no_duplicate(rnums) ==
    \A i \in 1..Len(rnums), j \in 1..Len(rnums) : rnums[i] = rnums[j] => i = j

C29_disjoint ==
    \A i \in 1..Len(current_open_rnum), j \in 1..Len(current_closed_rnum) :
        current_open_rnum[i] # current_closed_rnum[j]

C29_ring_numbers_disjoint ==
    /\ C29_disjoint
    /\ C29_no_duplicate(current_open_rnum)
    /\ C29_no_duplicate(current_closed_rnum)

\* C30: ion redistribution conserves electrons.  A BracketAtom built from a
\* configuration whose parsed subshells hold E electrons, with charge c, has a
\* subshell mapping holding max(E - c, 0) electrons when c > 0 and E + |c|
\* when c < 0; electrons_by_layers sums to that total; and no stored subshell
\* entry counts zero electrons.
RECURSIVE C30_sum_seq(_)
C30_sum_seq(seq) == IF seq = <<>> THEN 0 ELSE Head(seq) + C30_sum_seq(Tail(seq))

C30_total(m) == SumOver(m, DOMAIN m)

C30_expected(E, c) == IF c > 0 THEN (IF E - c > 0 THEN E - c ELSE 0) ELSE E - c

C30_ion_built ==
    /\ ret.op = "BracketAtom"
    /\ ret.args[3] # None
    /\ ret.args[3][1] # 0

C30_totals ==
    C30_ion_built =>
        LET E == C30_total(_parse_electron_configuration(ret.args[2]))
            total == C30_expected(E, ret.args[3][1])
        IN  /\ C30_total(ret.out.subshells) = total
            /\ C30_sum_seq(ret.out.electrons_by_layers) = total

C30_no_zero_entry ==
    C30_ion_built => \A k \in DOMAIN ret.out.subshells : ret.out.subshells[k] # 0

C30_electrons_conserved == C30_totals /\ C30_no_zero_entry

\* the same with the atoms that start without any subshell left out
C30_conserved_from_nonempty ==
    (C30_ion_built /\ _parse_electron_configuration(ret.args[2]) # EmptySubshells)
        => C30_electrons_conserved

=========================================================================
